---- MODULE Spec2Model ----
(***************************************************************************)
(* FeedbackX: the feedback-collection creation workflow                    *)
(* (CreateFeedbackController -> CreateFeedbackService -> repository),      *)
(* the CommonErrorInterceptor that turns its errors into HTTP responses,   *)
(* and the AdminAuthGuard.                                                 *)
(*                                                                         *)
(* JavaScript values are modelled as follows.                              *)
(*  - A string whose characters matter (Authorization header, admin        *)
(*    secret, API key) is a sequence of one-character strings.             *)
(*  - A message built by a template literal is the sequence of its pieces. *)
(*  - A value whose type the code tests is a record [type |-> "string" |   *)
(*    "array" | "number" | "object" | "undefined", val |-> ...]; two       *)
(*    strings are equal when their pieces are: no piece of the model holds *)
(*    the separator ", " that Array.prototype.join inserts.                *)
(*  - undefined is the string "undefined" for optional string fields and   *)
(*    the record Undefined elsewhere.                                      *)
(***************************************************************************)
EXTENDS Integers, Sequences, FiniteSets, TLC

VARIABLES
    store,        \* rows of the feedback table (the repository's contents)
    nextId,       \* the store's id generator
    calls,        \* number of POST /feedbacks requests received so far
    pc,           \* per client: position of its request in create()
    model,        \* per client: the CreateFeedbackModel of its request
    found,        \* per client: what repository.findOne resolved to
    pending,      \* per client: the entity handed to repository.save
    outcome,      \* per client: how the promise of create() settled
    response,     \* per client: the HTTP response of its request
    storeAtCall,  \* per client: the store's contents when create was called
    ops,          \* per client: repository operations issued by its request
    adminSecret,  \* the configured app.adminSecret, read-only
    request,      \* the request the admin guard is handling
    verdict,      \* what canActivate did for it
    attempts,     \* number of requests the admin guard handled
    denials,      \* number of them it denied
    served,       \* the request whose handler the interceptor wraps
    escaped,      \* the error catchError of the interceptor received
    rethrown,     \* the exception the interceptor emitted for it
    errorLog,     \* what the interceptor's logger.error received for it
    handled       \* number of errors the interceptor handled

createVars == <<store, nextId, calls, pc, model, found, pending, outcome, response, storeAtCall, ops>>

guardVars == <<adminSecret, request, verdict, attempts, denials>>

interceptVars == <<served, escaped, rethrown, errorLog, handled>>

vars == <<createVars, guardVars, interceptVars>>

----------------------------------------------------------------------------
(* Bounds of the model *)

\* concurrent requests the dispatch layer runs at once
NumClients == 2

\* requests received in one run
MaxCalls == 3

\* distinct outcomes of the random source
NumEntropy == 2

\* longest token of an Authorization header
MaxTokenLen == 2

\* longest run of whitespace in an Authorization header
MaxWhitespace == 2

\* requests the admin guard handles in one run
MaxAttempts == 2

\* errors the interceptor handles in one run
MaxHandled == 2

Clients == 1..NumClients

Entropy == 1..NumEntropy

----------------------------------------------------------------------------
(* Inputs *)

Names == {"Customer Satisfaction", "Support Quality"}

Keys == {"customer-satisfaction", "support-quality"}

NumericScale == [type |-> "numeric", min |-> 0, max |-> 10]

EnumScale == [type |-> "enum", values |-> <<"bad", "ok", "great">>]

NoMetadata == [undefined |-> TRUE]

\* description?, scale and metadata? of a request body: one with only the
\* required scale, one with every optional field present
Payloads ==
    { [description |-> "undefined", scale |-> NumericScale, metadata |-> NoMetadata],
      [description |-> "Test description", scale |-> EnumScale,
       metadata |-> [customField |-> "customValue"]] }

\* CreateFeedbackDto instances that passed the ValidationPipe
CreateFeedbackDtos ==
    { [name |-> n, key |-> k, description |-> p.description, scale |-> p.scale,
       metadata |-> p.metadata] : n \in Names, k \in Keys, p \in Payloads }

NoModel == [none |-> TRUE]

NoRow == [null |-> TRUE]

NoEntity == [none |-> TRUE]

NoResponse == [none |-> TRUE]

Unsettled == [status |-> "pending"]

NoError == [kind |-> "none"]

----------------------------------------------------------------------------
(* JavaScript values whose type the code tests *)

Undefined == [type |-> "undefined"]

\* a string: the sequence of its pieces (its characters where they matter)
Str(chars) == [type |-> "string", val |-> chars]

StrArray(items) == [type |-> "array", val |-> items]

Num(n) == [type |-> "number", val |-> n]

\* an object: its own members by name
Obj(members) == [type |-> "object", val |-> members]

----------------------------------------------------------------------------
(* Pure helpers of the creation workflow *)

\* controller: dtoToModel
dtoToModel(dto) ==
    [name |-> dto.name, key |-> dto.key, description |-> dto.description,
     scale |-> dto.scale, metadata |-> dto.metadata]

\* number of random bytes of an API key
ApiKeyBytes == 32

HexDigits == <<"0", "1", "2", "3", "4", "5", "6", "7", "8", "9", "a", "b", "c", "d", "e", "f">>

\* a random source that returns the same bytes at every call
randomBytesRepeated(n, e) == [i \in 1..n |-> (i * 53) % 256]

\* crypto.randomBytes(n): n bytes, each 0..255, decided by the entropy drawn
randomBytes(n, e) == [i \in 1..n |-> (e * 89 + i * 53) % 256]

\* Buffer.toString('hex'): two lowercase hex digits per byte, high nibble first
toHex(bytes) ==
    [i \in 1..(2 * Len(bytes)) |->
        LET b == bytes[(i + 1) \div 2]
        IN  IF i % 2 = 1 THEN HexDigits[(b \div 16) + 1] ELSE HexDigits[(b % 16) + 1]]

\* an API key from 16 random bytes
generateApiKey16(e) == <<"f", "x", "_">> \o toHex(randomBytes(16, e))

\* service: generateApiKey
generateApiKey(e) == <<"f", "x", "_">> \o toHex(randomBytes(ApiKeyBytes, e))

\* rows matched by where: [{ name }, { key }] (name = $1 OR key = $2)
Matching(rows, name, key) == {r \in rows : r.name = name \/ r.key = key}

\* a lookup by name alone
findOneByName(rows, name, key) ==
    IF {r \in rows : r.name = name} = {} THEN {NoRow} ELSE {r \in rows : r.name = name}

\* repository.findOne: one matching row, whichever the store returns first, or null
findOneResults(rows, name, key) ==
    IF Matching(rows, name, key) = {} THEN {NoRow} ELSE Matching(rows, name, key)

nameTaken(name) == [type |-> "string", val |-> <<"Feedback collection name \"", name, "\" already taken">>]

keyTaken(key) == [type |-> "string", val |-> <<"Feedback collection key \"", key, "\" already taken">>]

\* both fields reported whenever a row is found
uniquenessErrorsBoth(existing, name, key) ==
    [f \in {"name", "key"} |-> IF f = "name" THEN nameTaken(name) ELSE keyTaken(key)]

\* the key comparison left out
uniquenessErrorsNameOnly(existing, name, key) ==
    [f \in (IF existing.name = name THEN {"name"} ELSE {})
        |-> nameTaken(name)]

\* service: the errors object assertNameAndKeyUnique builds for the row found
uniquenessErrors(existing, name, key) ==
    [f \in (IF existing.name = name THEN {"name"} ELSE {})
            \cup (IF existing.key = key THEN {"key"} ELSE {})
        |-> IF f = "name" THEN nameTaken(name) ELSE keyTaken(key)]

\* new ValidationException(errors)
ValidationException(errors) == [kind |-> "ValidationException", errors |-> errors]

\* the store rejecting a query (connectivity, constraint, timeout)
StoreError == [kind |-> "Error", message |-> "connect ECONNREFUSED", stack |-> "at Repository"]

----------------------------------------------------------------------------
(* Error normalizer *)

HttpBadRequest == 400

HttpCreated == 201

HttpInternalServerError == 500

\* new HttpException(response, status) and its subclasses
HttpException(resp, status) == [kind |-> "HttpException", status |-> status, response |-> resp]

\* messages passed through as they are
formatValidationIssuesUnwrapped(errors) == errors

\* every value put into a new array, arrays included
formatValidationIssuesWrapAll(errors) ==
    [f \in DOMAIN errors |-> StrArray(<<errors[f]>>)]

\* formatValidationIssues: every field's value becomes an array
formatValidationIssues(errors) ==
    [f \in DOMAIN errors |->
        IF errors[f].type = "array" THEN errors[f]
        ELSE StrArray(<<errors[f]>>)]

\* the names of the HttpStatus enum, by status code
HttpStatus ==
    [code \in {400, 401, 403, 404, 500} |->
        CASE code = 400 -> "BAD_REQUEST"
          [] code = 401 -> "UNAUTHORIZED"
          [] code = 403 -> "FORBIDDEN"
          [] code = 404 -> "NOT_FOUND"
          [] code = 500 -> "INTERNAL_SERVER_ERROR"]

\* HttpStatus[statusCode] || 'Error'
statusText(statusCode) ==
    IF statusCode \in DOMAIN HttpStatus THEN Str(<<HttpStatus[statusCode]>>)
    ELSE Str(<<"Error">>)

\* typeof v === 'object' && v !== null
IsObject(v) == v.type \in {"object", "array"}

\* name in v, for an object or an array v: an array has no named member
In(name, v) == v.type = "object" /\ name \in DOMAIN v.val

RECURSIVE joinFrom(_, _)
\* the pieces of items[i], items[i+1], ... with ", " between them
joinFrom(items, i) ==
    IF i > Len(items) THEN <<>>
    ELSE (IF i > 1 THEN <<", ">> ELSE <<>>) \o items[i].val \o joinFrom(items, i + 1)

\* message.join(', ') for an array of strings
join(items) == Str(joinFrom(items, 1))

\* the response has the normalized format and no message member
alreadyNormalized(resp) ==
    /\ IsObject(resp)
    /\ In("error", resp)
    /\ In("statusCode", resp)
    /\ resp.val.error.type = "string"
    /\ resp.val.statusCode.type = "number"
    /\ ~In("message", resp)

\* the error member is preferred to the message member
errorMessageErrorFirst(resp, statusCode) ==
    IF resp.type = "string" THEN resp
    ELSE IF In("error", resp) /\ resp.val.error.type = "string"
         THEN resp.val.error
    ELSE IF In("message", resp) /\ resp.val.message.type = "string"
         THEN resp.val.message
    ELSE IF In("message", resp) /\ resp.val.message.type = "array"
         THEN join(resp.val.message.val)
    ELSE statusText(statusCode)

\* normalizeHttpExceptionResponse: the error message extracted from a
\* response that is not passed through
errorMessage(resp, statusCode) ==
    IF resp.type = "string" THEN resp
    ELSE IF IsObject(resp)
    THEN IF In("message", resp)
         THEN IF resp.val.message.type = "string" THEN resp.val.message
              ELSE IF resp.val.message.type = "array"
                   THEN join(resp.val.message.val)
              ELSE statusText(statusCode)
         ELSE IF In("error", resp) /\ resp.val.error.type = "string"
              THEN resp.val.error
         ELSE statusText(statusCode)
    ELSE statusText(statusCode)

\* every response is rebuilt from its message
normalizeAlwaysRebuilt(exception) ==
    Obj([error |-> errorMessage(exception.response, exception.status),
         statusCode |-> Num(exception.status)])

\* normalizeHttpExceptionResponse
normalizeHttpExceptionResponse(exception) ==
    IF alreadyNormalized(exception.response) THEN exception.response
    ELSE Obj([error |-> errorMessage(exception.response, exception.status),
              statusCode |-> Num(exception.status)])

\* new BadRequestException(response) for an object response
BadRequestException(resp) == HttpException(resp, HttpBadRequest)

\* new InternalServerErrorException(response) for an object response
InternalServerErrorException(resp) == HttpException(resp, HttpInternalServerError)

\* error instanceof Error
IsError(error) == error.kind \in {"Error", "ValidationException", "HttpException"}

\* String(error) for a thrown value that is no Error
String(error) ==
    CASE error.kind = "string" -> error.val
      [] error.kind = "number" -> ToString(error.val)
      [] OTHER -> error.kind

\* the record logger.error receives for an unrecognized error
errorLogRecord(error, req) ==
    LET record ==
            [level |-> "error",
             message |-> <<"Request failed. Reason: ",
                           IF IsError(error) THEN error.message ELSE String(error)>>,
             context |-> "CommonErrorInterceptor",
             error |-> error, params |-> req.params, url |-> req.url, method |-> req.method]
    IN  IF IsError(error) /\ error.stack # "undefined"
        THEN record @@ [stack |-> error.stack]
        ELSE record

\* the reply to an unrecognized error says what the error said
unexpectedErrorEchoed(error) ==
    InternalServerErrorException(
        Obj([error |-> Str(<<IF IsError(error) THEN error.message ELSE String(error)>>),
             statusCode |-> Num(HttpInternalServerError)]))

\* interceptor: the exception emitted for an unrecognized error
unexpectedError(error) ==
    InternalServerErrorException(
        Obj([error |-> Str(<<"Internal Server Error">>),
             statusCode |-> Num(HttpInternalServerError)]))

\* every error that escapes is logged
interceptLoggingAll(error, req) ==
    [exception |->
        IF error.kind = "ValidationException"
        THEN BadRequestException(
                Obj([issues |-> formatValidationIssues(error.errors),
                     error |-> Str(<<"Bad Request">>),
                     statusCode |-> Num(HttpBadRequest)]))
        ELSE IF error.kind = "HttpException"
        THEN HttpException(normalizeHttpExceptionResponse(error), error.status)
        ELSE unexpectedError(error),
     log |-> IF error.kind \in {"ValidationException", "HttpException"}
             THEN <<[level |-> "error", context |-> "CommonErrorInterceptor",
                     error |-> error, params |-> req.params, url |-> req.url,
                     method |-> req.method]>>
             ELSE <<errorLogRecord(error, req)>>]

\* CommonErrorInterceptor.intercept's catchError: the exception emitted for
\* an error, and what is logged
intercept(error, req) ==
    IF error.kind = "ValidationException"
    THEN [exception |-> BadRequestException(
                            Obj([issues |-> formatValidationIssues(error.errors),
                                 error |-> Str(<<"Bad Request">>),
                                 statusCode |-> Num(HttpBadRequest)])),
          log |-> <<>>]
    ELSE IF error.kind = "HttpException"
    THEN [exception |-> HttpException(normalizeHttpExceptionResponse(error), error.status),
          log |-> <<>>]
    ELSE [exception |-> unexpectedError(error),
          log |-> <<errorLogRecord(error, req)>>]

\* the framework's reply for an exception leaving the interceptor
errorResponse(exception) == [status |-> exception.status, body |-> exception.response]

\* controller: modelToDto, plainToInstance keeping the exposed fields, sent
\* with @HttpCode(HttpStatus.CREATED)
modelToDto(entity) ==
    [id |-> entity.id, name |-> entity.name, key |-> entity.key,
     description |-> entity.description, scale |-> entity.scale,
     metadata |-> entity.metadata, apiKey |-> entity.apiKey]

createdResponse(entity) == [status |-> HttpCreated, body |-> modelToDto(entity)]

\* the request object the interceptor reads
PostFeedbacks == [url |-> "/feedbacks", method |-> "POST", params |-> <<>>]

----------------------------------------------------------------------------
(* Admin auth guard: values *)

\* !value for a value that is undefined, a string or an array
Falsy(v) == v.type = "undefined" \/ (v.type = "string" /\ v.val = <<>>)

\* characters \s matches, among those a header value can hold
IsWhitespace(ch) == ch \in {" ", "\t"}

\* characters . does not match
IsLineTerminator(ch) == ch \in {"\n", "\r"}

\* String.prototype.charCodeAt for the characters of the model
charCodeAt(ch) ==
    CASE ch = "\t" -> 9   [] ch = " " -> 32  [] ch = "," -> 44  [] ch = "." -> 46
      [] ch = "1" -> 49  [] ch = "2" -> 50  [] ch = "3" -> 51  [] ch = "7" -> 55
      [] ch = "A" -> 65  [] ch = "B" -> 66  [] ch = "E" -> 69  [] ch = "R" -> 82
      [] ch = "a" -> 97  [] ch = "b" -> 98  [] ch = "c" -> 99  [] ch = "e" -> 101
      [] ch = "i" -> 105 [] ch = "r" -> 114 [] ch = "s" -> 115

\* the case folding of the i flag
toLowerCase(ch) ==
    CASE ch = "A" -> "a" [] ch = "B" -> "b" [] ch = "E" -> "e" [] ch = "R" -> "r"
      [] OTHER -> ch

RECURSIVE bitXor(_, _)
\* a ^ b on non-negative integers
bitXor(a, b) ==
    IF a = 0 THEN b
    ELSE IF b = 0 THEN a
    ELSE 2 * bitXor(a \div 2, b \div 2) + (((a % 2) + (b % 2)) % 2)

RECURSIVE bitAnd(_, _)
\* a & b on non-negative integers
bitAnd(a, b) ==
    IF a = 0 \/ b = 0 THEN 0
    ELSE 2 * bitAnd(a \div 2, b \div 2) + (IF a % 2 = 1 /\ b % 2 = 1 THEN 1 ELSE 0)

RECURSIVE bitOr(_, _)
\* a | b on non-negative integers
bitOr(a, b) ==
    IF a = 0 THEN b
    ELSE IF b = 0 THEN a
    ELSE 2 * bitOr(a \div 2, b \div 2) + (IF a % 2 = 1 \/ b % 2 = 1 THEN 1 ELSE 0)

\* length of the longest run of whitespace of s that starts at position from
whitespaceRun(s, from) ==
    CHOOSE m \in 0..(Len(s) + 1 - from) :
        /\ \A i \in from..(from + m - 1) : IsWhitespace(s[i])
        /\ (from + m > Len(s) \/ ~IsWhitespace(s[from + m]))

\* length of the longest run of whitespace of s that ends at its last position
trailingWhitespace(s) ==
    CHOOSE m \in 0..Len(s) :
        /\ \A i \in (Len(s) - m + 1)..Len(s) : IsWhitespace(s[i])
        /\ (m = Len(s) \/ ~IsWhitespace(s[Len(s) - m]))

\* the token used as matched
trimNothing(s) == s

\* String.prototype.trim
trim(s) ==
    IF whitespaceRun(s, 1) = Len(s) THEN <<>>
    ELSE SubSeq(s, whitespaceRun(s, 1) + 1, Len(s) - trailingWhitespace(s))

BearerLiteral == <<"b", "e", "a", "r", "e", "r">>

NoMatch == [matched |-> FALSE, group |-> <<>>]

\* the greatest element of a non-empty set of numbers
Greatest(S) == CHOOSE k \in S : \A j \in S : j <= k

\* the numbers of whitespace characters \s+ may take for the rest to be
\* matched by (.+)$: the rest is not empty and holds no line terminator
bearerSplits(h) ==
    {k \in 1..whitespaceRun(h, Len(BearerLiteral) + 1) :
        /\ Len(BearerLiteral) + k < Len(h)
        /\ \A i \in (Len(BearerLiteral) + k + 1)..Len(h) : ~IsLineTerminator(h[i])}

\* authHeader.match(/^Bearer\s+(.+)$/i): \s+ is greedy and gives back
\* characters only when (.+) would otherwise match nothing
bearerMatch(h) ==
    LET splits == bearerSplits(h)
    IN  IF /\ Len(h) >= Len(BearerLiteral)
           /\ \A i \in 1..Len(BearerLiteral) : toLowerCase(h[i]) = BearerLiteral[i]
           /\ splits # {}
        THEN [matched |-> TRUE,
              group |-> SubSeq(h, Len(BearerLiteral) + Greatest(splits) + 1, Len(h))]
        ELSE NoMatch

RECURSIVE accumulate(_, _, _, _)
RECURSIVE accumulateUntilMismatch(_, _, _, _)
\* a loop that stops at the first position where the strings differ
accumulateUntilMismatch(a, b, i, result) ==
    IF i > Len(a) \/ result # 0 THEN [result |-> result, iterations |-> i - 1]
    ELSE accumulateUntilMismatch(a, b, i + 1,
            bitOr(result, bitXor(charCodeAt(a[i]), charCodeAt(b[i]))))

\* the loop of constantTimeCompare from position i on: result |= a[i] ^ b[i]
accumulate(a, b, i, result) ==
    IF i > Len(a) THEN [result |-> result, iterations |-> i - 1]
    ELSE accumulate(a, b, i + 1, bitOr(result, bitXor(charCodeAt(a[i]), charCodeAt(b[i]))))

\* guard: constantTimeCompare
constantTimeCompare(a, b) ==
    IF Len(a) # Len(b) THEN FALSE
    ELSE accumulate(a, b, 1, 0).result = 0

\* the characters of s before its first comma: s.split(',')[0]
firstEntry(s) ==
    IF \E i \in 1..Len(s) : s[i] = ","
    THEN SubSeq(s, 1, (CHOOSE i \in 1..Len(s) : s[i] = "," /\ \A j \in 1..(i - 1) : s[j] # ",") - 1)
    ELSE s

\* the proxy header is preferred to the address the framework set
getClientIpForwardedFirst(req) ==
    IF ~Falsy(req.forwardedFor) /\ req.forwardedFor.type = "string"
    THEN trim(firstEntry(req.forwardedFor.val))
    ELSE IF ~Falsy(req.ip) THEN req.ip.val
    ELSE IF ~Falsy(req.realIp) /\ req.realIp.type = "string" THEN req.realIp.val
    ELSE <<"unknown">>

\* guard: getClientIp
getClientIp(req) ==
    IF ~Falsy(req.ip) THEN req.ip.val
    ELSE IF ~Falsy(req.forwardedFor) /\ req.forwardedFor.type = "string"
         THEN trim(firstEntry(req.forwardedFor.val))
    ELSE IF ~Falsy(req.realIp) /\ req.realIp.type = "string" THEN req.realIp.val
    ELSE <<"unknown">>

HttpUnauthorized == 401

\* the denial thrown as 403 Forbidden
ForbiddenException(message) ==
    [kind |-> "HttpException", status |-> 403,
     response |-> Obj([message |-> Str(<<message>>), error |-> Str(<<"Forbidden">>),
                       statusCode |-> Num(403)])]

\* new UnauthorizedException(message)
UnauthorizedException(message) ==
    [kind |-> "HttpException", status |-> HttpUnauthorized,
     response |-> Obj([message |-> Str(<<message>>), error |-> Str(<<"Unauthorized">>),
                       statusCode |-> Num(HttpUnauthorized)])]

NothingThrown == [kind |-> "none"]

\* a record written by the guard's logger; the first denial carries no ip
guardLogRecord(level, message, req) ==
    [level |-> level, message |-> message, context |-> "AdminAuthGuard",
     path |-> req.url, ip |-> getClientIp(req)]

\* guard: a denial: the warn record and the exception thrown
denied(logRecord, message, checks) ==
    [granted |-> FALSE, thrown |-> UnauthorizedException(message),
     log |-> <<logRecord>>, checks |-> checks]

\* guard: canActivate from the header check on, for a configured secret
checkCredentials(secret, req) ==
    IF Falsy(req.authorization) \/ req.authorization.type # "string"
    THEN denied(guardLogRecord("warn",
                    "Admin authentication failed: missing Authorization header", req),
                "Missing or invalid Authorization header",
                <<"secret", "header">>)
    ELSE LET match == bearerMatch(req.authorization.val)
         IN  IF ~match.matched \/ match.group = <<>>
             THEN denied(guardLogRecord("warn",
                             "Admin authentication failed: invalid Bearer token format", req),
                         "Invalid Authorization header format. Expected: Bearer <token>",
                         <<"secret", "header", "format">>)
             ELSE IF ~constantTimeCompare(trim(match.group), secret.val)
             THEN denied(guardLogRecord("warn",
                             "Admin authentication failed: invalid token", req),
                         "Invalid authentication token",
                         <<"secret", "header", "format", "token">>)
             ELSE [granted |-> TRUE, thrown |-> NothingThrown,
                   log |-> <<guardLogRecord("debug", "Admin authentication successful", req)>>,
                   checks |-> <<"secret", "header", "format", "token">>]

\* guard: the denial for a secret that is not configured
notConfigured(req) ==
    denied([level |-> "warn",
            message |-> "Admin authentication attempted but ADMIN_SECRET is not configured",
            context |-> "AdminAuthGuard", path |-> req.url],
           "Admin authentication is not configured",
           <<"secret">>)

\* only an absent secret counts as not configured
canActivateUndefinedOnly(secret, req) ==
    IF secret.type = "undefined" THEN notConfigured(req) ELSE checkCredentials(secret, req)

\* the header is tested before the secret
canActivateHeaderFirst(secret, req) ==
    IF Falsy(req.authorization) \/ req.authorization.type # "string"
    THEN checkCredentials(secret, req)
    ELSE IF Falsy(secret) THEN notConfigured(req) ELSE checkCredentials(secret, req)

\* guard: canActivate
canActivate(secret, req) ==
    IF Falsy(secret) THEN notConfigured(req) ELSE checkCredentials(secret, req)

----------------------------------------------------------------------------
(* Admin auth guard: inputs *)

\* app.adminSecret: absent, empty, or a secret
Secrets ==
    {Undefined, Str(<<>>), Str(<<"a", "b">>), Str(<<"b">>), Str(<<"a", " ", "b">>),
     Str(<<" ", "a">>)}

Schemes ==
    {<<"B", "e", "a", "r", "e", "r">>, <<"b", "e", "a", "r", "e", "r">>,
     <<"B", "E", "A", "R", "E", "R">>, <<"B", "a", "s", "i", "c">>,
     <<" ", "B", "e", "a", "r", "e", "r">>}

\* runs of spaces and tabs
Separators == UNION {[1..k -> {" ", "\t"}] : k \in 0..MaxWhitespace}

Tokens == UNION {[1..k -> {"a", "b"}] : k \in 0..MaxTokenLen} \cup {<<"a", " ", "b">>}

Trailers == {[i \in 1..k |-> " "] : k \in 0..MaxWhitespace}

\* request.headers.authorization: absent, repeated, or one string
AuthorizationHeaders ==
    {Undefined, StrArray(<<Str(<<"B", "e", "a", "r", "e", "r", " ", "b">>)>>)}
    \cup {Str(s \o w \o t \o q) : s \in Schemes, w \in Separators, t \in Tokens, q \in Trailers}

AdminUrl == "/admin/test"

\* a request of a known address with the Authorization header h
HeaderRequest(h) ==
    [url |-> AdminUrl, authorization |-> h, ip |-> Str(<<"7", ".", "7">>),
     forwardedFor |-> Undefined, realIp |-> Undefined]

\* requests that differ in the Authorization header
HeaderRequests == {HeaderRequest(h) : h \in AuthorizationHeaders}

\* request.ip: absent or set by the framework
RequestIps == {Undefined, Str(<<>>), Str(<<"7", ".", "7">>)}

\* X-Forwarded-For: absent, empty, a list of addresses, a list whose first
\* entry is blank, or a repeated header
ForwardedFors ==
    {Undefined, Str(<<>>), Str(<<" ", "1", ".", "1", " ", ",", " ", "2", ".", "2">>),
     Str(<<" ", ",", "2", ".", "2">>), StrArray(<<Str(<<"1", ".", "1">>)>>)}

\* X-Real-IP: absent, an address, or a repeated header
RealIps == {Undefined, Str(<<"3", ".", "3">>), StrArray(<<Str(<<"3", ".", "3">>)>>)}

\* requests that differ in what tells the client's address
IpRequests ==
    {[url |-> AdminUrl, authorization |-> h, ip |-> ip, forwardedFor |-> f, realIp |-> r] :
        h \in {Undefined, Str(<<"B", "e", "a", "r", "e", "r", " ", "b">>)},
        ip \in RequestIps, f \in ForwardedFors, r \in RealIps}

GuardRequests == HeaderRequests \cup IpRequests

NoRequest == [none |-> TRUE]

NoVerdict == [none |-> TRUE]

----------------------------------------------------------------------------
(* The creation workflow: POST /feedbacks *)

\* a promise of create() that resolved with an entity
resolved(entity) == [status |-> "resolved", value |-> entity]

\* a promise of create() that rejected with an error
rejected(error) == [status |-> "rejected", reason |-> error]

\* a repository operation issued and not yet answered
issued(op) == [op |-> op, answer |-> "pending"]

\* the last repository operation issued is answered
answered(log, answer) == [log EXCEPT ![Len(log)].answer = answer]

InitCreate ==
    /\ store = {}
    /\ nextId = 1
    /\ calls = 0
    /\ pc = [c \in Clients |-> "idle"]
    /\ model = [c \in Clients |-> NoModel]
    /\ found = [c \in Clients |-> NoRow]
    /\ pending = [c \in Clients |-> NoEntity]
    /\ outcome = [c \in Clients |-> Unsettled]
    /\ response = [c \in Clients |-> NoResponse]
    /\ storeAtCall = [c \in Clients |-> {}]
    /\ ops = [c \in Clients |-> <<>>]

\* the guard has handled no request
InitGuard ==
    /\ request = NoRequest
    /\ verdict = NoVerdict
    /\ attempts = 0
    /\ denials = 0

\* the interceptor has caught no error
InitIntercept ==
    /\ escaped = NoError
    /\ rethrown = NoError
    /\ served = NoRequest
    /\ errorLog = <<>>
    /\ handled = 0

\* the service starts on an empty table; no admin secret is configured
Init == InitCreate /\ InitGuard /\ InitIntercept /\ adminSecret = Undefined

\* controller.create up to the service's first await: the DTO is mapped to
\* the domain model and assertNameAndKeyUnique issues repository.findOne
Call(c, dto) ==
    /\ pc[c] = "idle"
    /\ calls < MaxCalls
    /\ calls' = calls + 1
    /\ model' = [model EXCEPT ![c] = dtoToModel(dto)]
    /\ storeAtCall' = [storeAtCall EXCEPT ![c] = store]
    /\ ops' = [ops EXCEPT ![c] = <<issued("findOne")>>]
    /\ pc' = [pc EXCEPT ![c] = "lookup"]
    /\ UNCHANGED <<store, nextId, found, pending, outcome, response, guardVars, interceptVars>>

\* findOne rejects: the error leaves create and the controller unchanged
\* and the interceptor answers
LookupRejected(c) ==
    /\ pc[c] = "lookup"
    /\ ops' = [ops EXCEPT ![c] = answered(@, "rejected")]
    /\ outcome' = [outcome EXCEPT ![c] = rejected(StoreError)]
    /\ response' = [response EXCEPT ![c] =
            errorResponse(intercept(StoreError, PostFeedbacks).exception)]
    /\ pc' = [pc EXCEPT ![c] = "done"]
    /\ UNCHANGED <<store, nextId, calls, model, found, pending, storeAtCall, guardVars, interceptVars>>

\* the entity is saved before the uniqueness check throws
LookupFoundAfterSave(c) ==
    /\ pc[c] = "lookup"
    /\ \E r \in findOneResults(store, model[c].name, model[c].key) :
        /\ r # NoRow
        /\ found' = [found EXCEPT ![c] = r]
        /\ outcome' = [outcome EXCEPT ![c] = rejected(ValidationException(
                uniquenessErrors(r, model[c].name, model[c].key)))]
        /\ response' = [response EXCEPT ![c] =
                errorResponse(intercept(ValidationException(
                    uniquenessErrors(r, model[c].name, model[c].key)), PostFeedbacks).exception)]
    /\ store' = store \cup {[id |-> nextId, name |-> model[c].name, key |-> model[c].key,
                              description |-> model[c].description, scale |-> model[c].scale,
                              metadata |-> model[c].metadata, apiKey |-> generateApiKey(1)]}
    /\ nextId' = nextId + 1
    /\ ops' = [ops EXCEPT ![c] = answered(@, "resolved")]
    /\ pc' = [pc EXCEPT ![c] = "done"]
    /\ UNCHANGED <<calls, model, pending, storeAtCall, guardVars, interceptVars>>

\* the row found gets a new API key before the ValidationException is thrown
LookupFoundRegenerating(c) ==
    /\ pc[c] = "lookup"
    /\ \E r \in findOneResults(store, model[c].name, model[c].key) :
        /\ r # NoRow
        /\ found' = [found EXCEPT ![c] = r]
        /\ outcome' = [outcome EXCEPT ![c] = rejected(ValidationException(
                uniquenessErrors(r, model[c].name, model[c].key)))]
        /\ response' = [response EXCEPT ![c] =
                errorResponse(intercept(ValidationException(
                    uniquenessErrors(r, model[c].name, model[c].key)), PostFeedbacks).exception)]
        /\ \E e \in Entropy :
            store' = (store \ {r}) \cup {[r EXCEPT !.apiKey = generateApiKey(e)]}
    /\ ops' = [ops EXCEPT ![c] = answered(@, "resolved")]
    /\ pc' = [pc EXCEPT ![c] = "done"]
    /\ UNCHANGED <<nextId, calls, model, pending, storeAtCall, guardVars, interceptVars>>

\* findOne resolves to a row: assertNameAndKeyUnique throws the
\* ValidationException, which the interceptor turns into the reply
LookupFound(c) ==
    /\ pc[c] = "lookup"
    /\ \E r \in findOneResults(store, model[c].name, model[c].key) :
        /\ r # NoRow
        /\ found' = [found EXCEPT ![c] = r]
        /\ outcome' = [outcome EXCEPT ![c] = rejected(ValidationException(
                uniquenessErrors(r, model[c].name, model[c].key)))]
        /\ response' = [response EXCEPT ![c] =
                errorResponse(intercept(ValidationException(
                    uniquenessErrors(r, model[c].name, model[c].key)), PostFeedbacks).exception)]
    /\ ops' = [ops EXCEPT ![c] = answered(@, "resolved")]
    /\ pc' = [pc EXCEPT ![c] = "done"]
    /\ UNCHANGED <<store, nextId, calls, model, pending, storeAtCall, guardVars, interceptVars>>

\* service: { ...model, apiKey }
withApiKey(m, apiKey) ==
    [name |-> m.name, key |-> m.key, description |-> m.description,
     scale |-> m.scale, metadata |-> m.metadata, apiKey |-> apiKey]

\* findOne resolves to null: the API key is generated and
\* repository.save({ ...model, apiKey }) is issued
LookupEmpty(c) ==
    /\ pc[c] = "lookup"
    /\ NoRow \in findOneResults(store, model[c].name, model[c].key)
    /\ \E e \in Entropy :
        pending' = [pending EXCEPT ![c] = withApiKey(model[c], generateApiKey(e))]
    /\ ops' = [ops EXCEPT ![c] = Append(answered(@, "resolved"), issued("save"))]
    /\ pc' = [pc EXCEPT ![c] = "save"]
    /\ UNCHANGED <<store, nextId, calls, model, found, outcome, response, storeAtCall, guardVars, interceptVars>>

\* the row the store persists for an entity without id: the entity plus
\* the generated id
persisted(entity, id) ==
    [id |-> id, name |-> entity.name, key |-> entity.key,
     description |-> entity.description, scale |-> entity.scale,
     metadata |-> entity.metadata, apiKey |-> entity.apiKey]

\* uniqueness checked again at the insert
SaveResolvedChecked(c) ==
    /\ pc[c] = "save"
    /\ ops' = [ops EXCEPT ![c] = answered(@, "resolved")]
    /\ pc' = [pc EXCEPT ![c] = "done"]
    /\ IF Matching(store, pending[c].name, pending[c].key) = {}
       THEN /\ store' = store \cup {persisted(pending[c], nextId)}
            /\ nextId' = nextId + 1
            /\ outcome' = [outcome EXCEPT ![c] = resolved(persisted(pending[c], nextId))]
            /\ response' = [response EXCEPT ![c] = createdResponse(persisted(pending[c], nextId))]
       ELSE /\ UNCHANGED <<store, nextId>>
            /\ \E r \in Matching(store, pending[c].name, pending[c].key) :
                /\ outcome' = [outcome EXCEPT ![c] = rejected(ValidationException(
                        uniquenessErrors(r, pending[c].name, pending[c].key)))]
                /\ response' = [response EXCEPT ![c] =
                        errorResponse(intercept(ValidationException(
                            uniquenessErrors(r, pending[c].name, pending[c].key)),
                            PostFeedbacks).exception)]
    /\ UNCHANGED <<calls, model, found, pending, storeAtCall, guardVars, interceptVars>>

\* save resolves: the row is inserted, create returns it and the controller
\* answers 201 with the detail DTO
SaveResolved(c) ==
    /\ pc[c] = "save"
    /\ store' = store \cup {persisted(pending[c], nextId)}
    /\ nextId' = nextId + 1
    /\ ops' = [ops EXCEPT ![c] = answered(@, "resolved")]
    /\ outcome' = [outcome EXCEPT ![c] = resolved(persisted(pending[c], nextId))]
    /\ response' = [response EXCEPT ![c] = createdResponse(persisted(pending[c], nextId))]
    /\ pc' = [pc EXCEPT ![c] = "done"]
    /\ UNCHANGED <<calls, model, found, pending, storeAtCall, guardVars, interceptVars>>

\* a rejected insert reported as a name and key collision
SaveRejectedAsConflict(c) ==
    /\ pc[c] = "save"
    /\ ops' = [ops EXCEPT ![c] = answered(@, "rejected")]
    /\ outcome' = [outcome EXCEPT ![c] = rejected(ValidationException(
            uniquenessErrorsBoth(pending[c], pending[c].name, pending[c].key)))]
    /\ response' = [response EXCEPT ![c] =
            errorResponse(intercept(ValidationException(
                uniquenessErrorsBoth(pending[c], pending[c].name, pending[c].key)),
                PostFeedbacks).exception)]
    /\ pc' = [pc EXCEPT ![c] = "done"]
    /\ UNCHANGED <<store, nextId, calls, model, found, pending, storeAtCall, guardVars, interceptVars>>

\* a rejected insert is issued again
SaveRejectedRetried(c) ==
    /\ pc[c] = "save"
    /\ Len(ops[c]) < 4
    /\ ops' = [ops EXCEPT ![c] = Append(answered(@, "rejected"), issued("save"))]
    /\ UNCHANGED <<store, nextId, calls, pc, model, found, pending, outcome, response, storeAtCall, guardVars, interceptVars>>

\* save rejects: as for findOne
SaveRejected(c) ==
    /\ pc[c] = "save"
    /\ ops' = [ops EXCEPT ![c] = answered(@, "rejected")]
    /\ outcome' = [outcome EXCEPT ![c] = rejected(StoreError)]
    /\ response' = [response EXCEPT ![c] =
            errorResponse(intercept(StoreError, PostFeedbacks).exception)]
    /\ pc' = [pc EXCEPT ![c] = "done"]
    /\ UNCHANGED <<store, nextId, calls, model, found, pending, storeAtCall, guardVars, interceptVars>>

\* the reply is sent and the request's state is dropped
Reply(c) ==
    /\ pc[c] = "done"
    /\ pc' = [pc EXCEPT ![c] = "idle"]
    /\ model' = [model EXCEPT ![c] = NoModel]
    /\ found' = [found EXCEPT ![c] = NoRow]
    /\ pending' = [pending EXCEPT ![c] = NoEntity]
    /\ outcome' = [outcome EXCEPT ![c] = Unsettled]
    /\ response' = [response EXCEPT ![c] = NoResponse]
    /\ storeAtCall' = [storeAtCall EXCEPT ![c] = {}]
    /\ ops' = [ops EXCEPT ![c] = <<>>]
    /\ UNCHANGED <<store, nextId, calls, guardVars, interceptVars>>

\* requests are dispatched concurrently: any client may call at any time
Next ==
    \E c \in Clients :
        \/ \E dto \in CreateFeedbackDtos : Call(c, dto)
        \/ LookupRejected(c)
        \/ LookupFound(c)
        \/ LookupEmpty(c)
        \/ SaveResolved(c)
        \/ SaveRejected(c)
        \/ Reply(c)

Spec == Init /\ [][Next]_vars

\* no request is in flight
Quiescent == \A c \in Clients : pc[c] = "idle"

\* a call that starts only when no other request is in flight
SerialCall(c, dto) == Quiescent /\ Call(c, dto)

\* requests run one at a time
SerialNext ==
    \E c \in Clients :
        \/ \E dto \in CreateFeedbackDtos : SerialCall(c, dto)
        \/ LookupRejected(c)
        \/ LookupFound(c)
        \/ LookupEmpty(c)
        \/ SaveResolved(c)
        \/ SaveRejected(c)
        \/ Reply(c)

SpecSerial == Init /\ [][SerialNext]_vars

----------------------------------------------------------------------------
(* The admin guard at work *)

\* the service starts with whatever secret the configuration holds
GuardInit == InitCreate /\ InitGuard /\ InitIntercept /\ adminSecret \in Secrets

\* the guard refuses every request once one was denied
ActivateWithLockout ==
    /\ request = NoRequest
    /\ attempts < MaxAttempts
    /\ attempts' = attempts + 1
    /\ \E req \in GuardRequests :
        /\ request' = req
        /\ verdict' = IF denials > 0
                      THEN denied(guardLogRecord("warn",
                                      "Admin authentication failed: locked out", req),
                                  "Too many failed attempts", <<"secret", "header">>)
                      ELSE canActivate(adminSecret, req)
        /\ denials' = IF denials = 0 /\ canActivate(adminSecret, req).granted
                      THEN denials ELSE denials + 1
    /\ UNCHANGED <<adminSecret, createVars, interceptVars>>

\* a request reaches an admin-gated endpoint: canActivate runs
Activate ==
    /\ request = NoRequest
    /\ attempts < MaxAttempts
    /\ attempts' = attempts + 1
    /\ \E req \in GuardRequests :
        LET result == canActivate(adminSecret, req)
        IN  /\ request' = req
            /\ verdict' = result
            /\ denials' = IF result.granted THEN denials ELSE denials + 1
    /\ UNCHANGED <<adminSecret, createVars, interceptVars>>

\* the request goes on to its handler or is answered 401; the guard keeps
\* nothing of it
Leave ==
    /\ request # NoRequest
    /\ request' = NoRequest
    /\ verdict' = NoVerdict
    /\ UNCHANGED <<adminSecret, attempts, denials, createVars, interceptVars>>

GuardNext ==
    \/ Activate
    \/ Leave

SpecGuard == GuardInit /\ [][GuardNext]_vars

----------------------------------------------------------------------------
(* The interceptor at work *)

\* the values of a field of a ValidationException's errors: a message, an
\* array of messages, an empty array
ErrorValues ==
    {Str(<<"is required">>), StrArray(<<Str(<<"too short">>), Str(<<"not a slug">>)>>),
     StrArray(<<>>)}

\* errors objects: any fields among name and key, none included
ErrorMaps == UNION {[F -> ErrorValues] : F \in SUBSET {"name", "key"}}

ValidationExceptions == {ValidationException(errors) : errors \in ErrorMaps}

\* statuses of the HttpStatus enum and one that is not a member of it
Statuses == {400, 401, 404, 500, 499}

SomeIssues == [email |-> StrArray(<<Str(<<"email is required">>)>>)]

\* what HttpException.getResponse() returns: a string or an object; the
\* response of the validation factory comes with status 400
Responses(status) ==
    { Str(<<"Error message">>),
      Str(<<>>),
      Obj([message |-> Str(<<"Error message">>)]),
      Obj([message |-> StrArray(<<Str(<<"Error message 1">>), Str(<<"Error message 2">>)>>)]),
      Obj([message |-> StrArray(<<>>)]),
      Obj([message |-> Num(7)]),
      Obj([message |-> Undefined, error |-> Str(<<"Custom error message">>)]),
      Obj([message |-> Str(<<"Resource not found">>), error |-> Str(<<"Not Found">>),
           statusCode |-> Num(status)]),
      Obj([message |-> StrArray(<<Str(<<"name must be a string">>)>>),
           error |-> Str(<<"Bad Request">>), statusCode |-> Num(status)]),
      Obj([error |-> Str(<<"Custom error message">>)]),
      Obj([error |-> Num(7)]),
      Obj([error |-> Num(7), statusCode |-> Num(status)]),
      Obj([error |-> Str(<<"Custom error message">>), statusCode |-> Str(<<"400">>)]),
      Obj([customField |-> Str(<<"value">>)]),
      Obj(<<>>),
      Obj([error |-> Str(<<"Authentication failed">>), statusCode |-> Num(status)]),
      Obj([error |-> Str(<<"Bad Request">>), statusCode |-> Num(400)]),
      Obj([error |-> Str(<<"Conflict">>), statusCode |-> Num(status),
           existing |-> Str(<<"customer-satisfaction">>)]) }
    \cup (IF status = HttpBadRequest
          THEN {Obj([issues |-> SomeIssues, error |-> Str(<<"Bad Request">>),
                     statusCode |-> Num(HttpBadRequest)])}
          ELSE {})

HttpExceptions ==
    UNION {{HttpException(resp, status) : resp \in Responses(status)} : status \in Statuses}

\* thrown values that are neither: Errors, a string, a number, null, undefined
UnrecognizedErrors ==
    { StoreError,
      [kind |-> "Error", message |-> "Unexpected error", stack |-> "undefined"],
      [kind |-> "Error", message |-> "password authentication failed for user admin",
       stack |-> "at Connection.parseE"],
      [kind |-> "string", val |-> "String error"],
      [kind |-> "number", val |-> 42],
      [kind |-> "null"],
      [kind |-> "undefined"] }

EscapedErrors == ValidationExceptions \cup HttpExceptions \cup UnrecognizedErrors

GetFeedback == [url |-> "/feedbacks/42", method |-> "GET", params |-> <<"42">>]

InterceptedRequests == {PostFeedbacks, GetFeedback}

\* an error escapes a handler: catchError runs and emits the exception
Catch(error, req) ==
    /\ escaped = NoError
    /\ handled < MaxHandled
    /\ handled' = handled + 1
    /\ served' = req
    /\ escaped' = error
    /\ rethrown' = intercept(error, req).exception
    /\ errorLog' = intercept(error, req).log
    /\ UNCHANGED <<createVars, guardVars>>

\* the exception reaches the framework's exception layer; the interceptor
\* keeps nothing of it
Emit ==
    /\ escaped # NoError
    /\ served' = NoRequest
    /\ escaped' = NoError
    /\ rethrown' = NoError
    /\ errorLog' = <<>>
    /\ UNCHANGED <<handled, createVars, guardVars>>

InterceptNext ==
    \/ \E error \in EscapedErrors : \E req \in InterceptedRequests : Catch(error, req)
    \/ Emit

SpecIntercept == Init /\ [][InterceptNext]_vars

----------------------------------------------------------------------------
(* Properties of the creation workflow *)

LowerHex == {"0", "1", "2", "3", "4", "5", "6", "7", "8", "9", "a", "b", "c", "d", "e", "f"}

\* /^fx_[a-f0-9]{64}$/
MatchesApiKeyFormat(k) ==
    /\ Len(k) = 3 + 64
    /\ k[1] = "f" /\ k[2] = "x" /\ k[3] = "_"
    /\ \A i \in 4..Len(k) : k[i] \in LowerHex

\* client c's request has been answered and the reply not yet dropped
Done(c) == pc[c] = "done"

\* no repository operation of c's request was rejected by the store
StoreAnswered(c) == \A i \in 1..Len(ops[c]) : ops[c][i].answer # "rejected"

NameStoredAtCall(c) == \E r \in storeAtCall[c] : r.name = model[c].name

KeyStoredAtCall(c) == \E r \in storeAtCall[c] : r.key = model[c].key

\* the rows written since c's call
NewRows(c) == store \ storeAtCall[c]

\* C1: a create called with a name and a key that match no stored collection
\* succeeds (the store answering its queries): exactly one new row is
\* written, it holds the input fields unchanged plus an apiKey of the form
\* fx_ + 64 lowercase hex characters, and it is what create returns.
C1_CreateSucceeds ==
    \A c \in Clients :
        (Done(c) /\ StoreAnswered(c) /\ ~NameStoredAtCall(c) /\ ~KeyStoredAtCall(c)) =>
            /\ outcome[c].status = "resolved"
            /\ Cardinality(NewRows(c)) = 1
            /\ \A r \in NewRows(c) :
                /\ r.name = model[c].name
                /\ r.key = model[c].key
                /\ r.description = model[c].description
                /\ r.scale = model[c].scale
                /\ r.metadata = model[c].metadata
                /\ MatchesApiKeyFormat(r.apiKey)
                /\ outcome[c].value = r

\* a create succeeded on a store that already held a collection
C1_Witness ==
    \E c \in Clients :
        /\ Done(c) /\ StoreAnswered(c) /\ ~NameStoredAtCall(c) /\ ~KeyStoredAtCall(c)
        /\ storeAtCall[c] # {}
        /\ outcome[c].status = "resolved"
        /\ model[c].description # "undefined"

\* C2: when creates run one at a time from an empty store, no two stored
\* collections share a name and no two share a key.
C2_NameAndKeyUnique ==
    \A r1 \in store : \A r2 \in store :
        r1 # r2 => (r1.name # r2.name /\ r1.key # r2.key)

\* two collections are stored and a third create was refused
C2_Witness ==
    /\ Cardinality(store) = 2
    /\ \E c \in Clients : Done(c) /\ outcome[c].status = "rejected"
            /\ outcome[c].reason.kind = "ValidationException"

\* create rejected with a ValidationException
ValidationFailed(c) ==
    outcome[c].status = "rejected" /\ outcome[c].reason.kind = "ValidationException"

\* the field map of the ValidationException create rejected with
ErrorFields(c) == DOMAIN outcome[c].reason.errors

\* a stored collection has the request's name and another key than the request's
NameReusedWithOtherKey(c) ==
    \E r \in storeAtCall[c] : r.name = model[c].name /\ r.key # model[c].key

\* a stored collection has the request's key and another name than the request's
KeyReusedWithOtherName(c) ==
    \E r \in storeAtCall[c] : r.key = model[c].key /\ r.name # model[c].name

\* C3, as claimed: a create whose name equals a stored collection's name
\* and whose key differs from that collection's key fails with a validation
\* error holding a name message and no key message.
C3_AsClaimed ==
    \A c \in Clients :
        (Done(c) /\ StoreAnswered(c) /\ NameReusedWithOtherKey(c)) =>
            (ValidationFailed(c) /\ ErrorFields(c) = {"name"})

\* C3, amended: a create whose name equals a stored collection's name and
\* whose key equals no stored collection's key fails with a validation
\* error holding a name message and no key message.
C3_NameTakenOnly ==
    \A c \in Clients :
        (Done(c) /\ StoreAnswered(c) /\ NameStoredAtCall(c) /\ ~KeyStoredAtCall(c)) =>
            (ValidationFailed(c) /\ ErrorFields(c) = {"name"})

\* a create reusing only a stored name was refused
C3_Witness ==
    \E c \in Clients :
        /\ Done(c) /\ StoreAnswered(c) /\ NameStoredAtCall(c) /\ ~KeyStoredAtCall(c)
        /\ ValidationFailed(c)

\* C4, as claimed: a create whose key equals a stored collection's key and
\* whose name differs from that collection's name fails with a validation
\* error holding a key message and no name message.
C4_AsClaimed ==
    \A c \in Clients :
        (Done(c) /\ StoreAnswered(c) /\ KeyReusedWithOtherName(c)) =>
            (ValidationFailed(c) /\ ErrorFields(c) = {"key"})

\* C4, amended: a create whose key equals a stored collection's key and
\* whose name equals no stored collection's name fails with a validation
\* error holding a key message and no name message.
C4_KeyTakenOnly ==
    \A c \in Clients :
        (Done(c) /\ StoreAnswered(c) /\ KeyStoredAtCall(c) /\ ~NameStoredAtCall(c)) =>
            (ValidationFailed(c) /\ ErrorFields(c) = {"key"})

\* a create reusing only a stored key was refused
C4_Witness ==
    \E c \in Clients :
        /\ Done(c) /\ StoreAnswered(c) /\ KeyStoredAtCall(c) /\ ~NameStoredAtCall(c)
        /\ ValidationFailed(c)

\* C5: a create whose name and key both exist in the store, on one stored
\* collection or on two, fails with a validation error holding both a name
\* message and a key message.
C5_BothTaken ==
    \A c \in Clients :
        (Done(c) /\ StoreAnswered(c) /\ NameStoredAtCall(c) /\ KeyStoredAtCall(c)) =>
            (ValidationFailed(c) /\ ErrorFields(c) = {"name", "key"})

\* C6: create is all-or-nothing: when it fails with a validation error no
\* insert was issued and the store is as it was before the call; a new row
\* exists only when create succeeded.
C6_AllOrNothing ==
    \A c \in Clients :
        Done(c) =>
            /\ ValidationFailed(c) =>
                    /\ \A i \in 1..Len(ops[c]) : ops[c][i].op # "save"
                    /\ store = storeAtCall[c]
            /\ NewRows(c) # {} => outcome[c].status = "resolved"

\* a create failed with a validation error on a non-empty store
C6_Witness ==
    \E c \in Clients : Done(c) /\ ValidationFailed(c) /\ Cardinality(store) = 2

\* C7: once a request's lookup found no match and its insert is issued, the
\* service checks nothing more: the request succeeds exactly when the store
\* accepts the insert, the row is written whatever other requests wrote
\* since the lookup, and the request never ends in a validation error.
C7_InsertNotRechecked ==
    \A c \in Clients :
        (Done(c) /\ Len(ops[c]) = 2) =>
            /\ outcome[c].status = "resolved" <=> ops[c][2].answer = "resolved"
            /\ outcome[c].status = "resolved" => outcome[c].value \in store
            /\ ~ValidationFailed(c)

\* two requests with the same name or the same key have both passed the
\* lookup and both issued their insert, and one of them has been answered
C7_Witness ==
    \E c \in Clients : \E d \in Clients \ {c} :
        /\ pc[c] = "done" /\ pc[d] = "save"
        /\ Len(ops[c]) = 2 /\ ops[c][2].answer = "resolved"
        /\ storeAtCall[c] = storeAtCall[d]
        /\ found[c] = NoRow
        /\ outcome[c].value \notin storeAtCall[d]
        /\ (pending[c].name = pending[d].name \/ pending[c].key = pending[d].key)

\* the request repeats a stored collection, the only one stored
RepeatsOnlyCollection(c) ==
    \E r \in storeAtCall[c] :
        /\ storeAtCall[c] = {r}
        /\ r.name = model[c].name /\ r.key = model[c].key
        /\ r.description = model[c].description
        /\ r.scale = model[c].scale /\ r.metadata = model[c].metadata

\* C8: on an empty store a create request gets 201 with an apiKey; the same
\* request repeated gets 400 with issues holding a name entry and a key
\* entry, each an array of messages, and the store still holds one
\* collection.
C8_CreateThenRepeat ==
    \A c \in Clients :
        (Done(c) /\ StoreAnswered(c)) =>
            /\ storeAtCall[c] = {} =>
                    /\ response[c].status = HttpCreated
                    /\ "apiKey" \in DOMAIN response[c].body
                    /\ MatchesApiKeyFormat(response[c].body.apiKey)
            /\ RepeatsOnlyCollection(c) =>
                    /\ response[c].status = HttpBadRequest
                    /\ response[c].body.val.statusCode = Num(HttpBadRequest)
                    /\ DOMAIN response[c].body.val.issues = {"name", "key"}
                    /\ \A f \in {"name", "key"} :
                        /\ response[c].body.val.issues[f].type = "array"
                        /\ Len(response[c].body.val.issues[f].val) >= 1
                    /\ Cardinality(store) = 1

\* the repeated request was answered
C8_Witness ==
    \E c \in Clients : Done(c) /\ StoreAnswered(c) /\ RepeatsOnlyCollection(c)

\* the store rejected an operation of c's request
StoreFailed(c) == \E i \in 1..Len(ops[c]) : ops[c][i].answer = "rejected"

\* C20: a failure of the store during create, at the lookup or at the
\* insert, is an unexpected internal error and never a validation error:
\* create rejects with the store's error, which reaches the interceptor as
\* it is, and the reply is the generic 500 response, not a 400 with issues;
\* nothing was written.
C20_StoreFailureIsInternal ==
    \A c \in Clients :
        (Done(c) /\ StoreFailed(c)) =>
            /\ outcome[c] = rejected(StoreError)
            /\ ~ValidationFailed(c)
            /\ response[c] = errorResponse(intercept(outcome[c].reason, PostFeedbacks).exception)
            /\ response[c].status = HttpInternalServerError
            /\ response[c].body =
                    Obj([error |-> Str(<<"Internal Server Error">>),
                         statusCode |-> Num(HttpInternalServerError)])
            /\ NewRows(c) = {}

\* the lookup found no match and the store rejected the insert
C20_Witness ==
    \E c \in Clients :
        /\ Done(c)
        /\ Len(ops[c]) = 2
        /\ ops[c][1].answer = "resolved"
        /\ ops[c][2].answer = "rejected"
        /\ store # {}

----------------------------------------------------------------------------
(* Properties of the admin guard *)

\* the guard has decided on a request
Decided == request # NoRequest

BearerCased ==
    <<{"B", "b"}, {"E", "e"}, {"A", "a"}, {"R", "r"}, {"E", "e"}, {"R", "r"}>>

\* h is Bearer in any case, n >= 1 spaces or tabs, the secret, then k >= 0
\* spaces or tabs; the secret is what the token is once trimmed, so it
\* neither starts nor ends with a space or tab
BearerWithSecret(h, secret) ==
    /\ secret # <<>>
    /\ secret[1] \notin {" ", "\t"}
    /\ secret[Len(secret)] \notin {" ", "\t"}
    /\ \E n \in 1..Len(h) : \E k \in 0..Len(h) :
        /\ Len(h) = 6 + n + Len(secret) + k
        /\ \A i \in 1..6 : h[i] \in BearerCased[i]
        /\ \A i \in 7..(6 + n) : h[i] \in {" ", "\t"}
        /\ \A i \in 1..Len(secret) : h[6 + n + i] = secret[i]
        /\ \A i \in (6 + n + Len(secret) + 1)..Len(h) : h[i] \in {" ", "\t"}

\* C9: with a configured admin secret, canActivate returns true exactly
\* when the Authorization header is a string of the shape Bearer <token>
\* (scheme in any case, whitespace around the token) whose trimmed token is
\* the secret; for every other header it throws UnauthorizedException.
C9_AuthorizedIffBearerSecret ==
    (Decided /\ ~Falsy(adminSecret)) =>
        /\ verdict.granted <=>
                /\ request.authorization.type = "string"
                /\ BearerWithSecret(request.authorization.val, adminSecret.val)
        /\ verdict.granted => verdict.thrown = NothingThrown
        /\ ~verdict.granted =>
                /\ verdict.thrown.kind = "HttpException"
                /\ verdict.thrown.status = HttpUnauthorized

\* a lower-case scheme, two whitespace characters before the token and one
\* after it: authorized
C9_Witness ==
    /\ Decided /\ ~Falsy(adminSecret)
    /\ verdict.granted
    /\ request.authorization.val[1] = "b"
    /\ request.authorization.val[8] = "\t"
    /\ request.authorization.val[Len(request.authorization.val)] = " "

\* C10: with no admin secret configured (absent or empty) canActivate throws
\* UnauthorizedException('Admin authentication is not configured') for every
\* request, whatever its Authorization header, and checks nothing else.
C10_FailsClosed ==
    (Decided /\ Falsy(adminSecret)) =>
        /\ ~verdict.granted
        /\ verdict.thrown = UnauthorizedException("Admin authentication is not configured")
        /\ verdict.checks = <<"secret">>
        /\ Len(verdict.log) = 1
        /\ verdict.log[1].level = "warn"
        /\ verdict.log[1].message =
                "Admin authentication attempted but ADMIN_SECRET is not configured"

\* the secret is the empty string and the header is Bearer followed by
\* whitespace alone, whose trimmed token is the empty string too: denied
C10_Witness ==
    /\ Decided /\ adminSecret = Str(<<>>)
    /\ request.authorization = Str(<<"B", "e", "a", "r", "e", "r", " ", " ">>)
    /\ ~verdict.granted

\* the checks of canActivate, in the order of the code
CheckOrder == <<"secret", "header", "format", "token">>

\* what each check throws and logs when it fails
DenialOf ==
    [secret |-> [thrown |-> "Admin authentication is not configured",
                 logged |-> "Admin authentication attempted but ADMIN_SECRET is not configured"],
     header |-> [thrown |-> "Missing or invalid Authorization header",
                 logged |-> "Admin authentication failed: missing Authorization header"],
     format |-> [thrown |-> "Invalid Authorization header format. Expected: Bearer <token>",
                 logged |-> "Admin authentication failed: invalid Bearer token format"],
     token  |-> [thrown |-> "Invalid authentication token",
                 logged |-> "Admin authentication failed: invalid token"]]

\* check number i of CheckOrder passes for the request at hand, taken on its
\* own; a check that cannot be evaluated because an earlier one failed
\* counts as failing
Passes(i) ==
    CASE i = 1 -> ~Falsy(adminSecret)
      [] i = 2 -> request.authorization.type = "string" /\ request.authorization.val # <<>>
      [] i = 3 -> /\ request.authorization.type = "string"
                  /\ bearerMatch(request.authorization.val).matched
                  /\ bearerMatch(request.authorization.val).group # <<>>
      [] i = 4 -> /\ adminSecret.type = "string"
                  /\ request.authorization.type = "string"
                  /\ bearerMatch(request.authorization.val).matched
                  /\ trim(bearerMatch(request.authorization.val).group) = adminSecret.val

\* the checks that fail for the request at hand
Failing == {i \in 1..Len(CheckOrder) : ~Passes(i)}

\* the least element of a non-empty set of numbers
Least(S) == CHOOSE k \in S : \A j \in S : k <= j

\* C11: canActivate applies its checks in the order secret, header, format,
\* token: the first check that fails alone decides the message thrown and
\* the message of the one warn record, the checks evaluated are those up to
\* it and no later one; when none fails all four were evaluated and the
\* request is authorized.
C11_FirstFailureDecides ==
    Decided =>
        IF Failing = {}
        THEN verdict.granted /\ verdict.checks = CheckOrder
        ELSE /\ ~verdict.granted
             /\ verdict.checks = SubSeq(CheckOrder, 1, Least(Failing))
             /\ verdict.thrown =
                    UnauthorizedException(DenialOf[CheckOrder[Least(Failing)]].thrown)
             /\ Len(verdict.log) = 1
             /\ verdict.log[1].level = "warn"
             /\ verdict.log[1].message = DenialOf[CheckOrder[Least(Failing)]].logged

\* no secret is configured and the request has no Authorization header:
\* two checks fail and the first was the only one evaluated
C11_Witness ==
    /\ Decided
    /\ {1, 2} \subseteq Failing
    /\ verdict.checks = <<"secret">>

\* v denies for one of the three credential failures: missing header,
\* malformed header, wrong token
CredentialFailure(v) == ~v.granted /\ Len(v.checks) >= 2

\* what the caller receives for an exception of the guard, once normalized
callerVisible(exception) ==
    errorResponse(HttpException(normalizeHttpExceptionResponse(exception), exception.status))

\* one request for each credential failure: no header, another scheme, a
\* token that is no secret of the model
DeniedRequests ==
    {HeaderRequest(h) :
        h \in {Undefined, Str(<<"B", "a", "s", "i", "c", " ", "a">>),
               Str(<<"B", "e", "a", "r", "e", "r", " ", "a">>)}}

\* C12, as claimed: the three credential failures of the guard surface
\* identically to the caller: the normalized response (status and error
\* text) of a denial for a missing header, a malformed header or a wrong
\* token is the same.
C12_DenialsIndistinguishable ==
    (Decided /\ CredentialFailure(verdict)) =>
        \A req \in DeniedRequests :
            CredentialFailure(canActivate(adminSecret, req)) =>
                callerVisible(canActivate(adminSecret, req).thrown) = callerVisible(verdict.thrown)

\* C12, amended: the three credential failures surface to the caller with
\* the same status, 401, in a response {error, statusCode: 401}; the error
\* text names the failure, so it differs between the three as the
\* server-side log messages do.
C12_SameStatusOwnText ==
    (Decided /\ CredentialFailure(verdict)) =>
        /\ callerVisible(verdict.thrown).status = HttpUnauthorized
        /\ DOMAIN callerVisible(verdict.thrown).body.val = {"error", "statusCode"}
        /\ callerVisible(verdict.thrown).body.val.statusCode = Num(HttpUnauthorized)
        /\ callerVisible(verdict.thrown).body.val.error =
                Str(<<DenialOf[CheckOrder[Len(verdict.checks)]].thrown>>)
        /\ \A req \in DeniedRequests :
            LET other == canActivate(adminSecret, req)
            IN  CredentialFailure(other) =>
                    /\ callerVisible(other.thrown).status = callerVisible(verdict.thrown).status
                    /\ (callerVisible(other.thrown) = callerVisible(verdict.thrown)
                            <=> other.checks = verdict.checks)
                    /\ (other.log[1].message = verdict.log[1].message
                            <=> other.checks = verdict.checks)

\* a header of another scheme was denied for its format
C12_Witness ==
    /\ Decided /\ CredentialFailure(verdict)
    /\ verdict.checks = <<"secret", "header", "format">>
    /\ request.authorization.val[1] = "B" /\ request.authorization.val[2] = "a"

\* the guard compared a token with the secret for the request at hand
Compared == Decided /\ Len(verdict.checks) = Len(CheckOrder)

\* the token the guard compared: the captured group, trimmed
ProvidedToken == trim(bearerMatch(request.authorization.val).group)

\* the character codes of a and b differ at no position of a
NoPositionDiffers(a, b) ==
    \A i \in 1..Len(a) : bitXor(charCodeAt(a[i]), charCodeAt(b[i])) = 0

\* C13: constantTimeCompare(a, b) is true exactly when a and b are the same
\* string: false when the lengths differ, and for equal lengths true exactly
\* when the XOR of the character codes is zero at every position; the guard
\* authorizes exactly when the token is the secret.
C13_CompareIsEquality ==
    Compared =>
        /\ constantTimeCompare(ProvidedToken, adminSecret.val)
                <=> ProvidedToken = adminSecret.val
        /\ Len(ProvidedToken) # Len(adminSecret.val)
                => ~constantTimeCompare(ProvidedToken, adminSecret.val)
        /\ Len(ProvidedToken) = Len(adminSecret.val)
                => (constantTimeCompare(ProvidedToken, adminSecret.val)
                        <=> NoPositionDiffers(ProvidedToken, adminSecret.val))
        /\ verdict.granted <=> ProvidedToken = adminSecret.val

\* a token as long as the secret, equal to it at the first position and
\* different at the last, was refused
C13_Witness ==
    /\ Compared
    /\ ~verdict.granted
    /\ Len(ProvidedToken) = 2 /\ Len(adminSecret.val) = 2
    /\ ProvidedToken[1] = adminSecret.val[1]
    /\ ProvidedToken[2] # adminSecret.val[2]

\* what canActivate decided: authorized, or which exception
Decision(v) == [granted |-> v.granted, thrown |-> v.thrown]

\* the request at hand as it would be with another value of one of the
\* members that tell the client's address, or with none of them
SameHeaderRequests ==
    {[request EXCEPT !.ip = ip] : ip \in RequestIps}
        \cup {[request EXCEPT !.forwardedFor = f] : f \in ForwardedFors}
        \cup {[request EXCEPT !.realIp = r] : r \in RealIps}
        \cup {[request EXCEPT !.ip = Undefined, !.forwardedFor = Undefined,
                              !.realIp = Undefined]}

\* C14: the guard's outcome for a request is decided by the configured
\* secret and the request's Authorization header alone: it is what
\* canActivate decides for any request with that header, whatever
\* request.ip, X-Forwarded-For and X-Real-IP hold, and whatever the guard
\* decided for earlier requests.
C14_SecretAndHeaderOnly ==
    Decided =>
        \A req \in SameHeaderRequests :
            Decision(canActivate(adminSecret, req)) = Decision(verdict)

\* a request with the right header and no request.ip is authorized after a
\* request was denied
C14_Witness ==
    /\ Decided
    /\ denials > 0
    /\ verdict.granted
    /\ request.ip = Undefined
    /\ request.forwardedFor # Undefined

----------------------------------------------------------------------------
(* Properties of the interceptor *)

\* the interceptor has emitted the exception for an error
Caught == escaped # NoError

\* C15: a ValidationException is turned into a 400 BadRequestException whose
\* response is {issues, error: 'Bad Request', statusCode: 400}; issues has
\* the fields of the exception's errors map, every value an array: a string
\* became the one-element array holding it, an array is the array it was;
\* the errors map of the exception is as it was thrown.
C15_ValidationBecomesBadRequest ==
    (Caught /\ escaped.kind = "ValidationException") =>
        /\ rethrown.kind = "HttpException"
        /\ rethrown.status = HttpBadRequest
        /\ DOMAIN rethrown.response.val = {"issues", "error", "statusCode"}
        /\ rethrown.response.val.error = Str(<<"Bad Request">>)
        /\ rethrown.response.val.statusCode = Num(HttpBadRequest)
        /\ DOMAIN rethrown.response.val.issues = DOMAIN escaped.errors
        /\ \A f \in DOMAIN escaped.errors :
            /\ rethrown.response.val.issues[f].type = "array"
            /\ escaped.errors[f].type = "string"
                    => rethrown.response.val.issues[f].val = <<escaped.errors[f]>>
            /\ escaped.errors[f].type = "array"
                    => rethrown.response.val.issues[f] = escaped.errors[f]
        /\ escaped \in ValidationExceptions

\* the errors map held a string for one field and an array for the other
C15_Witness ==
    /\ Caught /\ escaped.kind = "ValidationException"
    /\ DOMAIN escaped.errors = {"name", "key"}
    /\ escaped.errors["name"].type = "string"
    /\ escaped.errors["key"].type = "array"
    /\ Len(escaped.errors["key"].val) = 2

\* the error is neither a ValidationException nor an HttpException
Unrecognized(error) == error.kind \notin {"none", "ValidationException", "HttpException"}

\* C16: any error that is neither a ValidationException nor an HttpException
\* (an Error, a thrown string or number, null, undefined) yields the
\* response {error: 'Internal Server Error', statusCode: 500} with status
\* 500: one response for all of them, holding nothing of the error.
C16_UnexpectedIsGeneric ==
    (Caught /\ Unrecognized(escaped)) =>
        /\ rethrown.kind = "HttpException"
        /\ rethrown.status = HttpInternalServerError
        /\ rethrown.response =
                Obj([error |-> Str(<<"Internal Server Error">>),
                     statusCode |-> Num(HttpInternalServerError)])

\* an Error whose message names a database user, with a stack
C16_Witness ==
    /\ Caught /\ escaped.kind = "Error"
    /\ escaped.message = "password authentication failed for user admin"
    /\ escaped.stack # "undefined"
    /\ rethrown.status = HttpInternalServerError

\* an HttpException whose response is not passed through was caught
Rebuilt ==
    /\ Caught
    /\ escaped.kind = "HttpException"
    /\ ~( /\ escaped.response.type = "object"
          /\ {"error", "statusCode"} \subseteq DOMAIN escaped.response.val
          /\ "message" \notin DOMAIN escaped.response.val
          /\ escaped.response.val.error.type = "string"
          /\ escaped.response.val.statusCode.type = "number" )

\* resp is an object whose member name is of the type given
Holds(resp, name, type) ==
    /\ resp.type = "object"
    /\ name \in DOMAIN resp.val
    /\ resp.val[name].type = type

\* the pieces of the strings of items with ', ' between them, for the
\* arrays of the model, which hold at most two strings
Joined(items) ==
    IF Len(items) = 0 THEN <<>>
    ELSE IF Len(items) = 1 THEN items[1].val
    ELSE items[1].val \o <<", ">> \o items[2].val

\* none of the four sources of an error string applies to resp
NoUsableMessage(resp) ==
    /\ resp.type # "string"
    /\ ~Holds(resp, "message", "string")
    /\ ~Holds(resp, "message", "array")
    /\ ~(resp.type = "object" /\ "message" \notin DOMAIN resp.val /\ Holds(resp, "error", "string"))

\* e is the error string chosen for resp in the order: the response itself
\* if a string, the string message, the array message joined, the string
\* error when there is no message
ChosenInOrder(e, resp) ==
    /\ resp.type = "string" => e = resp
    /\ Holds(resp, "message", "string") => e = resp.val.message
    /\ Holds(resp, "message", "array") => e = Str(Joined(resp.val.message.val))
    /\ (resp.type = "object" /\ "message" \notin DOMAIN resp.val /\ Holds(resp, "error", "string"))
            => e = resp.val.error

\* C17, as claimed: for an HttpException whose response is not already
\* normalized the emitted exception keeps the status and its error string
\* is the response if a string, else the string message, else the array
\* message joined with ', ', else the string error when there is no
\* message, else the HttpStatus enum name of the status code.
C17_AsClaimed ==
    Rebuilt =>
        /\ rethrown.status = escaped.status
        /\ ChosenInOrder(rethrown.response.val.error, escaped.response)
        /\ NoUsableMessage(escaped.response) =>
                /\ escaped.status \in DOMAIN HttpStatus
                /\ rethrown.response.val.error = Str(<<HttpStatus[escaped.status]>>)

\* C17, amended: as claimed, the last choice being the HttpStatus enum name
\* of the status code or, for a status code that is not a member of the
\* enum, 'Error'.
C17_ErrorStringOrder ==
    Rebuilt =>
        /\ rethrown.status = escaped.status
        /\ ChosenInOrder(rethrown.response.val.error, escaped.response)
        /\ NoUsableMessage(escaped.response) =>
                rethrown.response.val.error =
                    IF escaped.status \in DOMAIN HttpStatus
                    THEN Str(<<HttpStatus[escaped.status]>>)
                    ELSE Str(<<"Error">>)

\* a response with a message and an error member: the message was chosen
C17_Witness ==
    /\ Rebuilt
    /\ Holds(escaped.response, "message", "array")
    /\ Holds(escaped.response, "error", "string")
    /\ Len(escaped.response.val.message.val) = 1
    /\ rethrown.response.val.error = escaped.response.val.message.val[1]

\* an HttpException whose response is already normalized was caught
PassedThrough == Caught /\ escaped.kind = "HttpException" /\ ~Rebuilt

\* C18: normalization is idempotent: a response that is already normalized
\* (an object with a string error, a numeric statusCode and no message) is
\* emitted unchanged, issues included, and normalizing the response of any
\* emitted exception again yields that response.
C18_NormalizeIdempotent ==
    /\ PassedThrough => rethrown.response = escaped.response
    /\ Caught => normalizeHttpExceptionResponse(rethrown) = rethrown.response

\* a normalized response with issues, which a rebuilt response has not
C18_Witness ==
    /\ PassedThrough
    /\ "issues" \in DOMAIN escaped.response.val
    /\ "issues" \in DOMAIN rethrown.response.val
    /\ escaped.status = HttpBadRequest

\* the error is a validation failure: a ValidationException of a service or
\* the 400 of the validation factory
ValidationFailure(error) ==
    \/ error.kind = "ValidationException"
    \/ /\ error.kind = "HttpException"
       /\ error.status = HttpBadRequest
       /\ error.response.type = "object"
       /\ "issues" \in DOMAIN error.response.val

\* C19: for every error that escapes a handler the emitted exception
\* carries a response {error: string, statusCode: number} with at most one
\* further member, issues, present only for validation failures.
C19_NormalizedShape ==
    Caught =>
        /\ rethrown.response.type = "object"
        /\ {"error", "statusCode"} \subseteq DOMAIN rethrown.response.val
        /\ DOMAIN rethrown.response.val \subseteq {"error", "statusCode", "issues"}
        /\ rethrown.response.val.error.type = "string"
        /\ rethrown.response.val.statusCode.type = "number"
        /\ "issues" \in DOMAIN rethrown.response.val => ValidationFailure(escaped)

----------------------------------------------------------------------------
(* The realm service: CreateRealmService *)

\* number of random bytes of a realm's API key
RealmApiKeyBytes == 32

\* realm service: generateApiKey
realmGenerateApiKey(e) == <<"f", "x", "_">> \o toHex(randomBytes(RealmApiKeyBytes, e))

\* realm service: repository.findOne({ where: [{ name }, { key }] })
realmFindOneResults(rows, name, key) ==
    IF {r \in rows : r.name = name \/ r.key = key} = {} THEN {NoRow}
    ELSE {r \in rows : r.name = name \/ r.key = key}

realmNameTaken(name) == [type |-> "string", val |-> <<"Realm name \"", name, "\" already taken">>]

realmKeyTaken(key) == [type |-> "string", val |-> <<"Realm key \"", key, "\" already taken">>]

\* the name comparison left out
realmUniquenessErrorsKeyOnly(existing, name, key) ==
    [f \in (IF existing.key = key THEN {"key"} ELSE {}) |-> realmKeyTaken(key)]

\* realm service: the errors object assertNameAndKeyUnique builds for the
\* row found
realmUniquenessErrors(existing, name, key) ==
    [f \in (IF existing.name = name THEN {"name"} ELSE {})
            \cup (IF existing.key = key THEN {"key"} ELSE {})
        |-> IF f = "name" THEN realmNameTaken(name) ELSE realmKeyTaken(key)]

\* realm service: assertNameAndKeyUnique, given how findOne settled: the
\* error it throws, or none
realmAssertNameAndKeyUnique(lookup, name, key) ==
    IF lookup.answer = "rejected" THEN StoreError
    ELSE IF lookup.value # NoRow
    THEN ValidationException(realmUniquenessErrors(lookup.value, name, key))
    ELSE NoError

\* realm service: handle, given how findOne settled, the random draw, how
\* save settled and the id the store assigns: the operations issued, how
\* the promise settles and the rows written
realmHandle(partialRealm, lookup, e, save, id) ==
    LET thrown == realmAssertNameAndKeyUnique(lookup, partialRealm.name, partialRealm.key)
        entity == [apiKey |-> realmGenerateApiKey(e)] @@ partialRealm
        saved == [id |-> id] @@ entity
    IN  IF thrown # NoError
        THEN [ops |-> <<[op |-> "findOne", answer |-> lookup.answer]>>,
              outcome |-> rejected(thrown), written |-> {}]
        ELSE IF save = "rejected"
        THEN [ops |-> <<[op |-> "findOne", answer |-> "resolved"],
                        [op |-> "save", answer |-> "rejected"]>>,
              outcome |-> rejected(StoreError), written |-> {}]
        ELSE [ops |-> <<[op |-> "findOne", answer |-> "resolved"],
                        [op |-> "save", answer |-> "resolved"]>>,
              outcome |-> resolved(saved), written |-> {saved}]

----------------------------------------------------------------------------
(* Further properties of the creation workflow *)

\* the draws of the random source that yield the API key k
DrawsOf(k) == {e \in Entropy : generateApiKey(e) = k}

Issued(c) == [i \in 1..Len(ops[c]) |-> ops[c][i].op]

\* C22: each create call issues exactly one lookup and at most one insert,
\* in that order: the insert is issued only after the lookup returned no
\* match and the API key was generated, and nothing is retried.
C22_OneLookupThenOneInsert ==
    \A c \in Clients :
        pc[c] # "idle" =>
            /\ Issued(c) \in {<<"findOne">>, <<"findOne", "save">>}
            /\ pc[c] = "lookup" <=> ops[c] = <<issued("findOne")>>
            /\ pc[c] = "save" <=> ops[c][Len(ops[c])] = issued("save")
            /\ Len(ops[c]) = 2 =>
                /\ ops[c][1].answer = "resolved"
                /\ found[c] = NoRow
                /\ pending[c] # NoEntity
                /\ MatchesApiKeyFormat(pending[c].apiKey)
            /\ (Done(c) /\ Len(ops[c]) = 1) => pending[c] = NoEntity

\* the store rejected the one insert of a request and the request is over
C22_Witness ==
    \E c \in Clients :
        /\ Done(c)
        /\ Issued(c) = <<"findOne", "save">>
        /\ ops[c][2].answer = "rejected"

\* how the store answered the lookup of c's request
LookupOf(c) ==
    IF ops[c][1].answer = "rejected" THEN [answer |-> "rejected", value |-> NoRow]
    ELSE [answer |-> "resolved", value |-> found[c]]

\* the random draw of c's request, if it made one
DrawOf(c) ==
    IF pending[c] = NoEntity THEN 1
    ELSE CHOOSE e \in Entropy : generateApiKey(e) = pending[c].apiKey

\* how the store answered the insert of c's request, if it issued one
SaveOf(c) == IF Len(ops[c]) = 2 THEN ops[c][2].answer ELSE "none"

\* the id the store gave the row of c's request, if it wrote one
IdOf(c) == IF outcome[c].status = "resolved" THEN outcome[c].value.id ELSE 0

\* CreateRealmService.handle run on the input of c's request, the store
\* answering it as it answered c
RealmTwin(c) == realmHandle(model[c], LookupOf(c), DrawOf(c), SaveOf(c), IdOf(c))

\* C28: CreateRealmService.handle and CreateFeedbackService.create are the
\* same operation: on the same store contents with the same name and key,
\* the store answering alike, they issue the same lookup with the same
\* possible answers, issue the same operations, take the same
\* succeed-or-fail decision with the same set of collided fields, and write
\* the same row with an apiKey of the same format; only the wording of the
\* messages differs.
C28_RealmIsFeedback ==
    \A c \in Clients :
        Done(c) =>
            /\ realmFindOneResults(storeAtCall[c], model[c].name, model[c].key)
                    = findOneResults(storeAtCall[c], model[c].name, model[c].key)
            /\ LookupOf(c).answer = "resolved" =>
                    LookupOf(c).value \in
                        realmFindOneResults(storeAtCall[c], model[c].name, model[c].key)
            /\ RealmTwin(c).ops = ops[c]
            /\ RealmTwin(c).outcome.status = outcome[c].status
            /\ RealmTwin(c).written = NewRows(c)
            /\ outcome[c].status = "resolved" =>
                /\ RealmTwin(c).outcome.value = outcome[c].value
                /\ DOMAIN RealmTwin(c).outcome.value = DOMAIN outcome[c].value
                /\ MatchesApiKeyFormat(RealmTwin(c).outcome.value.apiKey)
            /\ outcome[c].status = "rejected" =>
                /\ RealmTwin(c).outcome.reason.kind = outcome[c].reason.kind
                /\ IF ValidationFailed(c)
                   THEN /\ DOMAIN RealmTwin(c).outcome.reason.errors = ErrorFields(c)
                        /\ \A f \in ErrorFields(c) :
                            /\ RealmTwin(c).outcome.reason.errors[f].type = "string"
                            /\ RealmTwin(c).outcome.reason.errors[f]
                                    # outcome[c].reason.errors[f]
                   ELSE RealmTwin(c).outcome.reason = outcome[c].reason

\* a request collided on the name and the key at once
C28_Witness ==
    \E c \in Clients :
        /\ Done(c)
        /\ ValidationFailed(c)
        /\ ErrorFields(c) = {"name", "key"}
        /\ storeAtCall[c] # {}

\* C29: a create call, whether it succeeds or fails, leaves every
\* previously stored collection unchanged: no step of a request modifies
\* or removes a stored row, so every row, its apiKey included, stays in the
\* store as it was written.
C29_StoredRowsKept ==
    [][\A r \in store : r \in store']_vars

\* a create failed on a collision and another succeeded, with rows stored
\* before both
C29_Witness ==
    \E c \in Clients :
        /\ Done(c)
        /\ storeAtCall[c] # {}
        /\ storeAtCall[c] \subseteq store
        /\ outcome[c].status = "rejected"
        /\ Cardinality(store) >= 2

----------------------------------------------------------------------------
(* Further properties of the admin guard *)

\* the tokens of one letter that are as long as the configured secret
SecretLongTokens == {[i \in 1..Len(adminSecret.val) |-> ch] : ch \in {"a", "b"}}

\* C23: when the two strings have equal length, constantTimeCompare visits
\* every character position exactly once wherever the first mismatch is:
\* the number of loop iterations is the length, for the token at hand and
\* for every other token of that length.
C23_IterationsAreLength ==
    (Compared /\ Len(ProvidedToken) = Len(adminSecret.val)) =>
        /\ accumulate(ProvidedToken, adminSecret.val, 1, 0).iterations = Len(adminSecret.val)
        /\ \A t \in SecretLongTokens :
                accumulate(t, adminSecret.val, 1, 0).iterations
                    = accumulate(ProvidedToken, adminSecret.val, 1, 0).iterations

\* a token as long as the secret and different from it at the first
\* position was compared
C23_Witness ==
    /\ Compared
    /\ Len(ProvidedToken) = 2 /\ Len(adminSecret.val) = 2
    /\ ProvidedToken[1] # adminSecret.val[1]
    /\ ~verdict.granted

\* the one record the guard wrote for the request at hand is at the level
\* of the decision and carries the guard's context and the request path
LoggedWithPath ==
    /\ Len(verdict.log) = 1
    /\ verdict.log[1].level = (IF verdict.granted THEN "debug" ELSE "warn")
    /\ verdict.log[1].context = "AdminAuthGuard"
    /\ verdict.log[1].path = request.url

\* the record carries the best-effort client IP
LoggedWithIp ==
    /\ "ip" \in DOMAIN verdict.log[1]
    /\ verdict.log[1].ip = getClientIp(request)

\* C24: every denial by the guard, on every failure path, emits a
\* warn-level record that carries the request path and the best-effort
\* client IP, and every authorization emits a debug-level record with the
\* same context.
C24_DenialsLoggedWithPathAndIp ==
    Decided => (LoggedWithPath /\ LoggedWithIp)

\* v is a string that is not empty
Present(v) == v.type = "string" /\ v.val # <<>>

\* entry with the whitespace at its two ends removed is r
TrimmedTo(entry, r) ==
    /\ r = <<>> \/ (~IsWhitespace(r[1]) /\ ~IsWhitespace(r[Len(r)]))
    /\ \E i \in 0..Len(entry) :
        /\ i + Len(r) <= Len(entry)
        /\ SubSeq(entry, i + 1, i + Len(r)) = r
        /\ \A j \in (1..i) \cup ((i + Len(r) + 1)..Len(entry)) : IsWhitespace(entry[j])

\* entry is what h holds before its first comma, or h when it has none
FirstEntryOf(h, entry) ==
    /\ Len(entry) <= Len(h)
    /\ SubSeq(h, 1, Len(entry)) = entry
    /\ \A i \in 1..Len(entry) : entry[i] # ","
    /\ Len(entry) < Len(h) => h[Len(entry) + 1] = ","

\* C25: the client IP recorded in the guard's log is request.ip when
\* present (a non-empty string); otherwise the first comma-separated entry
\* of a non-empty string X-Forwarded-For header, trimmed; otherwise a
\* non-empty string X-Real-IP header; otherwise the literal 'unknown'.
C25_ClientIpOrder ==
    (Decided /\ Len(verdict.log) = 1 /\ "ip" \in DOMAIN verdict.log[1]) =>
        LET ip == verdict.log[1].ip
        IN  IF Present(request.ip) THEN ip = request.ip.val
            ELSE IF Present(request.forwardedFor)
                 THEN \E k \in 0..Len(request.forwardedFor.val) :
                        /\ FirstEntryOf(request.forwardedFor.val,
                                        SubSeq(request.forwardedFor.val, 1, k))
                        /\ TrimmedTo(SubSeq(request.forwardedFor.val, 1, k), ip)
            ELSE IF Present(request.realIp) THEN ip = request.realIp.val
            ELSE ip = <<"unknown">>

\* the address came from X-Forwarded-For although X-Real-IP was sent too
C25_Witness ==
    /\ Decided
    /\ ~Present(request.ip)
    /\ Present(request.forwardedFor)
    /\ Present(request.realIp)
    /\ "ip" \in DOMAIN verdict.log[1]
    /\ verdict.log[1].ip = <<"1", ".", "1">>

\* h is the Bearer scheme, in any case, followed by whitespace and nothing
\* else
BearerThenWhitespace(h) ==
    /\ Len(h) > Len(BearerLiteral)
    /\ \A i \in 1..Len(BearerLiteral) : h[i] \in BearerCased[i]
    /\ \A i \in (Len(BearerLiteral) + 1)..Len(h) : IsWhitespace(h[i])

\* C26: when the Authorization header is the Bearer scheme followed only
\* by whitespace (an empty token), the guard, its secret configured, denies
\* with the invalid-format reason and not with the wrong-token reason.
C26_EmptyTokenIsInvalidFormat ==
    (/\ Decided
     /\ ~Falsy(adminSecret)
     /\ request.authorization.type = "string"
     /\ BearerThenWhitespace(request.authorization.val)) =>
        /\ ~verdict.granted
        /\ verdict.thrown.response.val.message.val =
                <<"Invalid Authorization header format. Expected: Bearer <token>">>
        /\ verdict.checks = <<"secret", "header", "format">>

----------------------------------------------------------------------------
(* Further properties of the error interceptor *)

\* the error is an Error that has a stack
HasStack(error) == error.kind = "Error" /\ error.stack # "undefined"

\* C27: the interceptor writes an error-level log record exactly for
\* unrecognized errors: one record per such error, carrying the url, the
\* method and the path params of the request (and the stack when the error
\* has one), in place by the time the 500 exception is emitted; for a
\* ValidationException or an HttpException it writes no error log; every
\* error caught is answered by one exception and nothing is retried.
C27_LogsExactlyUnrecognized ==
    Caught =>
        /\ rethrown.kind = "HttpException"
        /\ IF Unrecognized(escaped)
           THEN /\ Len(errorLog) = 1
                /\ errorLog[1].level = "error"
                /\ errorLog[1].context = "CommonErrorInterceptor"
                /\ errorLog[1].error = escaped
                /\ errorLog[1].url = served.url
                /\ errorLog[1].method = served.method
                /\ errorLog[1].params = served.params
                /\ "stack" \in DOMAIN errorLog[1] <=> HasStack(escaped)
                /\ HasStack(escaped) => errorLog[1].stack = escaped.stack
                /\ rethrown.status = HttpInternalServerError
           ELSE errorLog = <<>>

\* an Error with a stack escaped the handler of GET /feedbacks/42
C27_Witness ==
    /\ Caught
    /\ HasStack(escaped)
    /\ served = GetFeedback
    /\ Len(errorLog) = 1
    /\ errorLog[1].params = <<"42">>

\* C30: for every HttpException that passes through the interceptor, the
\* statusCode member of the re-thrown response body equals the HTTP status
\* of the re-thrown exception, which equals the status of the original
\* exception.
C30_StatusCodeIsStatus ==
    (Caught /\ escaped.kind = "HttpException") =>
        /\ rethrown.status = escaped.status
        /\ rethrown.response.type = "object"
        /\ "statusCode" \in DOMAIN rethrown.response.val
        /\ rethrown.response.val.statusCode = Num(rethrown.status)

====
